---- MODULE Spec2Model ----
(***************************************************************************)
(* Model of src/src/sniper.ts: the nonce sequencer (NonceManager), the     *)
(* fee estimator, the submitter (buildAndSendMint), the retry orchestrator *)
(* (attemptMint / attemptMintWithBump) and the two event handlers.         *)
(*                                                                         *)
(* The file holds two programs: the script `main` (lines 1-211) and the    *)
(* class MintSniper (lines 213-449).  cfg.impl says which one runs; where  *)
(* the two agree one action models both.                                   *)
(*                                                                         *)
(* The program is single-threaded: a coroutine runs from one await to the  *)
(* next without interruption.  Each action below is one such run: the      *)
(* completion of the awaited call and everything the code does until the   *)
(* next await on an external call or a timer.                              *)
(*                                                                         *)
(* Three specifications: Spec runs the program against a node that may     *)
(* report any transaction count; ChainSpec runs it on an account nothing   *)
(* else uses, with the chain's count and mempool kept; FnSpec applies the  *)
(* pure functions (getPriorityFee, bumpPriority, sync) to bounded inputs.  *)
(***************************************************************************)
EXTENDS Integers, Sequences, FiniteSets, TLC

\* ---- bounds of the model
MaxHandlers == 2        \* events (pending or block) delivered in a run
MaxBlockTxs == 2        \* transactions in one block
MaxChainCount == 2      \* largest transaction count the chain reports
MaxFee == 40            \* largest fee, in wei, a pure function is applied to
MaxCeilingGwei == 3     \* largest configured ceiling the pure functions see
MaxLocalNonce == 5      \* largest counter and chain count sync is applied to

\* ---- program constants
\* ethers' "gwei" unit is 10^9 wei; the model keeps wei as the integer unit and
\* scales the ratio down so that fees fit TLC's 32-bit integers.
WeiPerGwei == 10
\* `private nonce = -1`
UninitNonce == -1

Handlers == 1..MaxHandlers
ChainCounts == 0..MaxChainCount
\* values of feeData.maxPriorityFeePerGas, in wei (0 is the bigint 0n)
SuggestedFees == {0, 15, 25}
\* the configurations the model runs: dry run or not, the script `main` or the
\* class MintSniper, the ceiling in gwei, and the bump factor as a fraction
\* num / den (1.5, the default, is 3 / 2)
Configs ==
  [dryRun : BOOLEAN, impl : {"main", "MintSniper"},
   maxPriorityFeeGwei : {2}, feeBumpFactor : {[num |-> 3, den |-> 2]},
   targetContract : {<<"A", "b">>},
   mintSelector : {<<>>, <<"m", "i">>}]

\* Strings are sequences of characters.  Addresses are written over the hex
\* digits a, b in either case (checksummed addresses mix cases); call data over
\* m, i, x.  The empty sequence stands for null / undefined.
\* what getTransaction resolves to: null; a contract creation (`to` is null);
\* a call of another contract; another call of the target; a call of the
\* watched function on the target, the address in another case than configured
Txs ==
  {[found |-> FALSE, to |-> <<>>, data |-> <<>>],
   [found |-> TRUE, to |-> <<>>, data |-> <<"m", "i", "x">>],
   [found |-> TRUE, to |-> <<"b", "b">>, data |-> <<"m", "i", "x">>],
   [found |-> TRUE, to |-> <<"a", "B">>, data |-> <<"x", "m", "i">>],
   [found |-> TRUE, to |-> <<"a", "B">>, data |-> <<"m", "i", "x">>]}

\* FEE_BUMP_FACTOR values: Number(env) is not validated, any number is taken
BumpFactors ==
  {[num |-> 1, den |-> 2], [num |-> 1, den |-> 1],
   [num |-> 3, den |-> 2], [num |-> 2, den |-> 1]}
\* the configurations the pure functions are applied under
FnConfigs ==
  [dryRun : {TRUE}, impl : {"MintSniper"},
   maxPriorityFeeGwei : 1..MaxCeilingGwei, feeBumpFactor : BumpFactors,
   targetContract : {<<"A", "b">>}, mintSelector : {<<"m", "i">>}]

VARIABLES
  cfg,        \* the configuration: read once, immutable
  started,    \* "boot" | "running" | "exited": position of main / start()
  nm,         \* the NonceManager: [locked, nonce]
  pc,         \* per handler: the await it is suspended at
  kind,       \* per handler: "pending" | "block"
  todo,       \* per handler: transactions of the event not yet fetched
  att,        \* per handler: the current (or last) attemptMint call
  allocs,     \* history: the values returned by next / getNonce, in order
  raised,     \* history: a sync has raised the counter
  holders,    \* history: handlers between a returned next and their release
  start,      \* history: the counter when the handlers were registered
  observed,   \* history: a call of the watched function on the target was fetched
  chain,      \* the sender's account on the chain, as the node reports it
  calc        \* one application of a pure function: its inputs and its result

vars == <<cfg, started, nm, pc, kind, todo, att, allocs, raised, holders, start,
          observed, chain, calc>>

\* ------------------------------------------------------------------------
\* NonceManager
\* ------------------------------------------------------------------------
NonceManager_new == [locked |-> FALSE, nonce |-> UninitNonce]

\* mutant: the counter starts one past the chain's count
NonceManager_init_OffByOne(m, count) == [m EXCEPT !.nonce = count + 1]

NonceManager_init(m, count) == [m EXCEPT !.nonce = count]

\* mutant: the loop on the flag is left out
NonceManager_lockFree_NoWait(m) == TRUE

\* `while (this.locked) await sleep(10)`: the caller goes on when this holds
NonceManager_lockFree(m) == ~m.locked

\* mutant: `return this.nonce` without the increment
NonceManager_next_NoIncrement(m) == [m EXCEPT !.locked = TRUE]

\* `this.locked = true; return this.nonce++;` (the value returned is m.nonce)
NonceManager_next(m) == [m EXCEPT !.locked = TRUE, !.nonce = @ + 1]

NonceManager_release(m) == [m EXCEPT !.locked = FALSE]

\* mutant: the counter is set to the chain's count without the comparison
NonceManager_sync_Unguarded(m, chainNonce) == [m EXCEPT !.nonce = chainNonce]

NonceManager_sync(m, chainNonce) ==
  IF chainNonce > m.nonce THEN [m EXCEPT !.nonce = chainNonce] ELSE m

\* ------------------------------------------------------------------------
\* Fees
\* ------------------------------------------------------------------------
\* ethers.parseUnits(String(g), "gwei")
parseUnitsGwei(g) == g * WeiPerGwei

Ceil(num, den) == (num + den - 1) \div den

\* `return priority > maxPriority ? maxPriority : priority`
clampPriority(priority) ==
  LET maxPriority == parseUnitsGwei(cfg.maxPriorityFeeGwei)
  IN  IF priority > maxPriority THEN maxPriority ELSE priority

\* Math.ceil(Number(formatUnits(base, "gwei")) * feeBumpFactor), back to wei
bumpPriority(base) ==
  parseUnitsGwei(Ceil(base * cfg.feeBumpFactor.num,
                      WeiPerGwei * cfg.feeBumpFactor.den))

\* `if (!priority) throw`: true of null and of the bigint 0n
noPriority(priority) == priority = 0

\* getPriorityFee on feeData.maxPriorityFeePerGas (null when not supplied)
getPriorityFee(supplied, priority) ==
  IF ~supplied \/ noPriority(priority)
  THEN [threw |-> TRUE, value |-> 0]
  ELSE [threw |-> FALSE, value |-> clampPriority(priority)]

\* ------------------------------------------------------------------------
\* The match rule of the handlers
\* ------------------------------------------------------------------------
toLowerCase(s) ==
  [i \in DOMAIN s |-> CASE s[i] = "A" -> "a" [] s[i] = "B" -> "b" [] OTHER -> s[i]]

startsWith(s, prefix) ==
  /\ Len(prefix) <= Len(s)
  /\ SubSeq(s, 1, Len(prefix)) = prefix

\* mutant: the test of the call data is left out
handler_matches_AnyCall(tx) ==
  /\ tx.found
  /\ tx.to # <<>>
  /\ toLowerCase(tx.to) = toLowerCase(cfg.targetContract)

\* the negation of the two `continue` / `return` tests of the handlers
handler_matches(tx) ==
  /\ tx.found
  /\ tx.to # <<>>
  /\ toLowerCase(tx.to) = toLowerCase(cfg.targetContract)
  /\ tx.data # <<>>
  /\ cfg.mintSelector # <<>>
  /\ startsWith(tx.data, cfg.mintSelector)

\* two addresses that differ in the case of their hex letters at most
SameAddress(a, b) ==
  /\ Len(a) = Len(b)
  /\ \A i \in DOMAIN a :
       \E letter \in {{"a", "A"}, {"b", "B"}} : {a[i], b[i]} \subseteq letter

\* a transaction that calls the watched function on the target contract: it
\* is sent to the target's address and its data is the selector followed by
\* the arguments
WatchedCall(tx) ==
  /\ tx.found
  /\ cfg.mintSelector # <<>>
  /\ SameAddress(tx.to, cfg.targetContract)
  /\ \E n \in 0..Len(tx.data) : SubSeq(tx.data, 1, n) = cfg.mintSelector

\* ------------------------------------------------------------------------
\* The chain, as seen through the node
\* ------------------------------------------------------------------------
\* the account is also used elsewhere: the node may report any count and
\* accept or reject any transaction
AnyChain == [mode |-> "any", count |-> 0, pending |-> {}, accepted |-> {}]

\* the account is used by this process only: count transactions are mined,
\* pending holds the nonces of the accepted transactions not yet mined
SoleSender(count) ==
  [mode |-> "sole", count |-> count, pending |-> {}, accepted |-> {}]

\* what getTransactionCount(address) may return
ReportedCounts == IF chain.mode = "sole" THEN {chain.count} ELSE ChainCounts

\* whether the node can accept a transaction of this nonce
NodeAccepts(nonce) ==
  chain.mode = "sole" => nonce >= chain.count /\ nonce \notin chain.pending

\* the chain after the node accepted a transaction of this nonce
Broadcast(nonce) ==
  IF chain.mode = "sole"
  THEN [chain EXCEPT !.pending = @ \cup {nonce}, !.accepted = @ \cup {nonce}]
  ELSE chain

\* whether wait(1) can return a receipt for the transaction of this nonce
Confirmed(nonce) ==
  chain.mode = "sole" => nonce \in chain.accepted /\ nonce < chain.count

\* ------------------------------------------------------------------------
\* One call of buildAndSendMint, and one call of attemptMint
\* ------------------------------------------------------------------------
NewSub(fee) ==
  [fee |-> fee, hasNonce |-> FALSE, nonce |-> UninitNonce, releases |-> 0,
   waited |-> FALSE, sent |-> FALSE, result |-> "running", cause |-> "none"]

NewAttempt ==
  [active |-> FALSE, base |-> 0, subs |-> <<>>, rejected |-> FALSE]

Last(s) == s[Len(s)]

\* the part of the state one step of handler h reads and writes
Local(h) ==
  [nm |-> nm, pc |-> pc[h], todo |-> todo[h], a |-> att[h],
   allocs |-> allocs, raised |-> raised, holders |-> holders]

Commit(h, st) ==
  /\ nm' = st.nm
  /\ pc' = [pc EXCEPT ![h] = st.pc]
  /\ todo' = [todo EXCEPT ![h] = st.todo]
  /\ att' = [att EXCEPT ![h] = st.a]
  /\ allocs' = st.allocs
  /\ raised' = st.raised
  /\ holders' = st.holders

SetLast(st, f) == [st EXCEPT !.a.subs[Len(st.a.subs)] = f]

\* the current buildAndSendMint call throws / returns
Threw(st, cause) ==
  SetLast(st, [Last(st.a.subs) EXCEPT !.result = "threw", !.cause = cause])

Returned(st) == SetLast(st, [Last(st.a.subs) EXCEPT !.result = "returned"])

\* next / getNonce once the lock is free: take it, return the counter,
\* increment it; buildAndSendMint then awaits populateTransaction
Acquire(st, h) ==
  LET got == SetLast(st, [Last(st.a.subs) EXCEPT !.hasNonce = TRUE,
                                                 !.nonce = st.nm.nonce])
  IN  [got EXCEPT !.nm = NonceManager_next(st.nm),
                  !.allocs = Append(st.allocs, st.nm.nonce),
                  !.holders = st.holders \cup {h},
                  !.pc = "populateTransaction"]

\* nonceMgr.release() called by the current buildAndSendMint call
Release(st, h) ==
  LET rel == SetLast(st, [Last(st.a.subs) EXCEPT !.releases = @ + 1])
  IN  [rel EXCEPT !.nm = NonceManager_release(st.nm),
                  !.holders = st.holders \ {h}]

\* `if (!wallet) throw new Error("Wallet not initialized")`: only the script
\* has this check, and its wallet is undefined exactly when DRY_RUN is set
walletMissing == cfg.impl = "main" /\ cfg.dryRun

\* buildAndSendMint(fee) from its call to its first await on the outside
buildAndSendMint(st, h, fee) ==
  LET st1 == [st EXCEPT !.a.subs = Append(@, NewSub(fee))]
  IN  IF walletMissing THEN Threw(st1, "wallet")
      ELSE IF NonceManager_lockFree(st1.nm) THEN Acquire(st1, h)
      ELSE [SetLast(st1, [NewSub(fee) EXCEPT !.waited = TRUE]) EXCEPT !.pc = "next"]

\* attemptMint returns to the handler, which goes on with the event's next
\* transaction (handleBlock's loop) or ends
attemptMint_return(st) ==
  [st EXCEPT !.a.active = FALSE,
             !.pc = IF st.todo > 0 THEN "getTransaction" ELSE "done"]

\* mutant: the retry is retried in its turn
attemptMint_retries_Twice(a) == Len(a.subs) <= 2

\* whether attemptMint makes the second call after the first one threw
attemptMint_retries(a) == Len(a.subs) = 1

\* the catch blocks of attemptMint: after the first call threw, one call with
\* the bumped fee; after the second threw, log and return
attemptMint_catch(st, h) ==
  IF attemptMint_retries(st.a)
  THEN LET r == buildAndSendMint(st, h, bumpPriority(st.a.base))
       IN  IF Last(r.a.subs).result = "threw" THEN attemptMint_return(r) ELSE r
  ELSE attemptMint_return(st)

\* attemptMint after a step of its current buildAndSendMint call
Settle(st, h) ==
  CASE Last(st.a.subs).result = "threw"    -> attemptMint_catch(st, h)
    [] Last(st.a.subs).result = "returned" -> attemptMint_return(st)
    [] OTHER                               -> st

\* ------------------------------------------------------------------------
\* Initial state and startup
\* ------------------------------------------------------------------------
NoCalc == [op |-> "none"]

\* the program after construction, before main / start() runs
Constructed ==
  /\ observed = FALSE
  /\ started = "boot"
  /\ nm = NonceManager_new
  /\ pc = [h \in Handlers |-> "idle"]
  /\ kind = [h \in Handlers |-> "none"]
  /\ todo = [h \in Handlers |-> 0]
  /\ att = [h \in Handlers |-> NewAttempt]
  /\ allocs = <<>>
  /\ raised = FALSE
  /\ holders = {}
  /\ start = UninitNonce

Init ==
  /\ cfg \in Configs
  /\ chain = AnyChain
  /\ calc = NoCalc
  /\ Constructed

\* whether startup reads the chain's transaction count: `if (this.wallet)`
bootstrap_inits == ~cfg.dryRun

\* bootstrap / main up to the registration of the handlers
Bootstrap ==
  /\ started = "boot"
  /\ IF bootstrap_inits
     THEN \/ \E count \in ReportedCounts :
               /\ nm' = NonceManager_init(nm, count)
               /\ started' = "running"
          \/ \* getTransactionCount fails: start() rejects, nothing is registered
             /\ started' = "exited"
             /\ UNCHANGED nm
     ELSE /\ started' = "running"
          /\ UNCHANGED nm
  /\ start' = nm'.nonce
  /\ UNCHANGED <<cfg, calc, observed, chain, pc, kind, todo, att, allocs, raised, holders>>

\* ------------------------------------------------------------------------
\* The watcher's handlers
\* ------------------------------------------------------------------------
\* events are delivered to handlers in the order of their numbers
CanStart(h) ==
  /\ started = "running"
  /\ pc[h] = "idle"
  /\ \A g \in Handlers : g < h => pc[g] # "idle"

\* mutant: the block registration has no .catch
handler_catches_PendingOnly(k) == k = "pending"

\* whether an error thrown inside the handler of an event of kind k is
\* caught: both registrations attach .catch (the script's handlers wrap
\* their bodies in try / catch)
handler_catches(k) == TRUE

\* an error leaves the body of handler h: the catch ends the handler; an
\* uncaught one is an unhandled rejection, which ends the process
HandlerThrows(h) ==
  IF handler_catches(kind[h])
  THEN /\ pc' = [pc EXCEPT ![h] = "caught"]
       /\ UNCHANGED started
  ELSE /\ pc' = [pc EXCEPT ![h] = "uncaught"]
       /\ started' = "crashed"

\* `if (!this.mintSelector) return` opens both handlers of the class
returnsAtOnce == cfg.impl = "MintSniper" /\ cfg.mintSelector = <<>>

\* provider.on("pending", ...): handlePending awaits getTransaction
PendingEvent(h) ==
  /\ CanStart(h)
  /\ kind' = [kind EXCEPT ![h] = "pending"]
  /\ todo' = [todo EXCEPT ![h] = IF returnsAtOnce THEN 0 ELSE 1]
  /\ pc' = [pc EXCEPT ![h] = IF returnsAtOnce THEN "done" ELSE "getTransaction"]
  /\ UNCHANGED <<cfg, calc, observed, chain, started, nm, att, allocs, raised, holders, start>>

\* provider.on("block", ...): handleBlock awaits getBlock
BlockEvent(h) ==
  /\ CanStart(h)
  /\ kind' = [kind EXCEPT ![h] = "block"]
  /\ pc' = [pc EXCEPT ![h] = IF returnsAtOnce THEN "done" ELSE "getBlock"]
  /\ UNCHANGED <<cfg, calc, observed, chain, started, nm, todo, att, allocs, raised, holders, start>>

\* getBlock fails, returns null (the handler ends), or returns a block
GetBlockReturn(h) ==
  /\ started = "running"
  /\ pc[h] = "getBlock"
  /\ \/ /\ HandlerThrows(h)
        /\ UNCHANGED todo
     \/ /\ pc' = [pc EXCEPT ![h] = "done"]
        /\ UNCHANGED <<todo, started>>
     \/ \E n \in 0..MaxBlockTxs :
          /\ todo' = [todo EXCEPT ![h] = n]
          /\ pc' = [pc EXCEPT ![h] = IF n > 0 THEN "getTransaction" ELSE "done"]
          /\ UNCHANGED started
  /\ UNCHANGED <<cfg, calc, observed, chain, nm, kind, att, allocs, raised, holders, start>>

\* getTransaction returns for the next transaction of the event
GetTransactionReturn(h) ==
  /\ started = "running"
  /\ pc[h] = "getTransaction"
  /\ todo' = [todo EXCEPT ![h] = @ - 1]
  /\ \/ \* the fetch fails: the class's handlePending turns it into
        \* undefined and returns; elsewhere it leaves the body (in handleBlock
        \* the loop with it) and reaches the handler's catch
        /\ IF cfg.impl = "MintSniper" /\ kind[h] = "pending"
           THEN /\ pc' = [pc EXCEPT ![h] = "done"]
                /\ UNCHANGED started
           ELSE HandlerThrows(h)
        /\ UNCHANGED <<att, observed>>
     \/ \E tx \in Txs :
          /\ observed' = (observed \/ WatchedCall(tx))
          /\ UNCHANGED started
          /\ IF handler_matches(tx)
             THEN \* attemptMint is called and awaits getFeeData
                  /\ pc' = [pc EXCEPT ![h] = "getFeeData"]
                  /\ att' = [att EXCEPT ![h] = [NewAttempt EXCEPT !.active = TRUE]]
             ELSE \* `continue` / `return`
                  /\ pc' = [pc EXCEPT ![h] =
                              IF todo[h] > 1 THEN "getTransaction" ELSE "done"]
                  /\ UNCHANGED att
  /\ UNCHANGED <<cfg, calc, chain, nm, kind, allocs, raised, holders, start>>

\* ------------------------------------------------------------------------
\* attemptMint / attemptMintWithBump and buildAndSendMint
\* ------------------------------------------------------------------------
\* mutant: the nonce is taken before the fee is read, and kept when that fails
attemptMint_reject_Allocates(h) ==
  /\ att' = [att EXCEPT ![h].rejected = TRUE, ![h].active = FALSE]
  /\ HandlerThrows(h)
  /\ nm' = NonceManager_next(nm)
  /\ allocs' = Append(allocs, nm.nonce)
  /\ UNCHANGED <<todo, raised, holders>>

\* getPriorityFee throws: it is called outside attemptMint's try, so
\* attemptMint rejects and the handler's catch ends the handler
attemptMint_reject(h) ==
  /\ att' = [att EXCEPT ![h].rejected = TRUE, ![h].active = FALSE]
  /\ HandlerThrows(h)
  /\ UNCHANGED <<nm, todo, allocs, raised, holders>>

\* getFeeData returns: getPriorityFee throws, or the first buildAndSendMint
\* call starts
GetFeeDataReturn(h) ==
  /\ started = "running"
  /\ pc[h] = "getFeeData"
  /\ \/ \* getFeeData rejects
        attemptMint_reject(h)
     \/ \E supplied \in BOOLEAN :
          \* maxPriorityFeePerGas is a bigint, or null
          \E priority \in IF supplied THEN SuggestedFees ELSE {0} :
          LET fee == getPriorityFee(supplied, priority)
          IN  IF fee.threw
              THEN attemptMint_reject(h)
              ELSE LET st0 == [Local(h) EXCEPT !.a.base = fee.value]
                   IN  /\ Commit(h, Settle(buildAndSendMint(st0, h, fee.value), h))
                       /\ UNCHANGED started
  /\ UNCHANGED <<cfg, calc, observed, chain, kind, start>>

\* the 10 ms timer of next / getNonce fires: the loop tests the flag again
NextWake(h) ==
  /\ started = "running"
  /\ pc[h] = "next"
  /\ IF NonceManager_lockFree(nm)
     THEN Commit(h, Acquire(Local(h), h))
     ELSE UNCHANGED <<nm, pc, todo, att, allocs, raised, holders>>
  /\ UNCHANGED <<cfg, calc, observed, chain, started, kind, start>>

\* populateTransaction returns or throws (outside any try)
PopulateReturn(h) ==
  /\ started = "running"
  /\ pc[h] = "populateTransaction"
  /\ \/ Commit(h, Settle(Threw(Local(h), "populate"), h))
     \/ IF cfg.dryRun
        THEN Commit(h, Settle(Returned(Release(Local(h), h)), h))
        ELSE Commit(h, [Local(h) EXCEPT !.pc = "sendTransaction"])
  /\ UNCHANGED <<cfg, calc, observed, chain, started, kind, start>>

\* sendTransaction: the node rejects the transaction, or accepts it
SendReturn(h) ==
  /\ started = "running"
  /\ pc[h] = "sendTransaction"
  /\ \/ /\ Commit(h, Settle(Threw(Release(Local(h), h), "send"), h))
        /\ UNCHANGED chain
     \/ LET s == Last(att[h].subs)
            st == SetLast(Local(h), [s EXCEPT !.sent = TRUE])
        IN  /\ NodeAccepts(s.nonce)
            /\ chain' = Broadcast(s.nonce)
            /\ Commit(h, [st EXCEPT !.pc = "wait"])
  /\ UNCHANGED <<cfg, calc, observed, started, kind, start>>

\* sentTx.wait(1) returns a receipt (or null), or throws
WaitReturn(h) ==
  /\ started = "running"
  /\ pc[h] = "wait"
  /\ \/ Commit(h, Settle(Threw(Release(Local(h), h), "wait"), h))
     \/ /\ Confirmed(Last(att[h].subs).nonce)
        /\ Commit(h, [Local(h) EXCEPT !.pc = "sync"])
  /\ UNCHANGED <<cfg, calc, observed, chain, started, kind, start>>

\* sync / syncIfBehind: getTransactionCount fails, or returns the chain's count
SyncReturn(h) ==
  /\ started = "running"
  /\ pc[h] = "sync"
  /\ \/ Commit(h, Settle(Threw(Release(Local(h), h), "sync"), h))
     \/ \E chainNonce \in ReportedCounts :
          LET st == [Local(h) EXCEPT !.nm = NonceManager_sync(nm, chainNonce),
                                     !.raised = raised \/ chainNonce > nm.nonce]
          IN  Commit(h, Settle(Returned(Release(st, h)), h))
  /\ UNCHANGED <<cfg, calc, observed, chain, started, kind, start>>

Next ==
  \/ Bootstrap
  \/ \E h \in Handlers : PendingEvent(h)
  \/ \E h \in Handlers : BlockEvent(h)
  \/ \E h \in Handlers : GetBlockReturn(h)
  \/ \E h \in Handlers : GetTransactionReturn(h)
  \/ \E h \in Handlers : GetFeeDataReturn(h)
  \/ \E h \in Handlers : NextWake(h)
  \/ \E h \in Handlers : PopulateReturn(h)
  \/ \E h \in Handlers : SendReturn(h)
  \/ \E h \in Handlers : WaitReturn(h)
  \/ \E h \in Handlers : SyncReturn(h)

Spec == Init /\ [][Next]_vars

\* ------------------------------------------------------------------------
\* The program on an account that nothing else uses
\* ------------------------------------------------------------------------
\* the chain mines the pending transaction whose nonce is the account's count
Mine ==
  /\ chain.mode = "sole"
  /\ chain.count \in chain.pending
  /\ chain' = [chain EXCEPT !.count = @ + 1, !.pending = @ \ {chain.count}]
  /\ UNCHANGED <<cfg, started, nm, pc, kind, todo, att, allocs, raised, holders,
                 start, observed, calc>>

\* the configurations that broadcast: DRY_RUN off, the selector resolved
ChainConfigs == {c \in Configs : ~c.dryRun /\ c.mintSelector # <<>>}

ChainInit ==
  /\ cfg \in ChainConfigs
  /\ \E count \in {0, MaxChainCount} : chain = SoleSender(count)
  /\ calc = NoCalc
  /\ Constructed

ChainNext == Next \/ Mine

ChainSpec == ChainInit /\ [][ChainNext]_vars

\* ------------------------------------------------------------------------
\* The pure functions, applied to inputs of bounded sets
\* ------------------------------------------------------------------------
Apply_getPriorityFee ==
  /\ \E supplied \in BOOLEAN :
       \E priority \in IF supplied THEN 0..MaxFee ELSE {0} :
       /\ calc' = [op |-> "getPriorityFee", supplied |-> supplied,
                   priority |-> priority,
                   out |-> getPriorityFee(supplied, priority)]
  /\ UNCHANGED <<cfg, started, nm, pc, kind, todo, att, allocs, raised, holders,
                 start, observed, chain>>

Apply_bumpPriority ==
  /\ \E base \in 0..MaxFee :
       calc' = [op |-> "bumpPriority", base |-> base, out |-> bumpPriority(base)]
  /\ UNCHANGED <<cfg, started, nm, pc, kind, todo, att, allocs, raised, holders,
                 start, observed, chain>>

\* sync / syncIfBehind on a counter, then the next allocation: `return
\* this.nonce++` returns the counter as sync left it
Apply_sync ==
  /\ \E local \in UninitNonce..MaxLocalNonce, chainNonce \in 0..MaxLocalNonce :
       LET m == NonceManager_sync([locked |-> FALSE, nonce |-> local], chainNonce)
       IN  calc' = [op |-> "sync", local |-> local, chainNonce |-> chainNonce,
                    after |-> m.nonce, returned |-> m.nonce,
                    next |-> NonceManager_next(m).nonce]
  /\ UNCHANGED <<cfg, started, nm, pc, kind, todo, att, allocs, raised, holders,
                 start, observed, chain>>

FnInit ==
  /\ cfg \in FnConfigs
  /\ chain = AnyChain
  /\ calc = NoCalc
  /\ Constructed

FnNext == Apply_getPriorityFee \/ Apply_bumpPriority \/ Apply_sync

FnSpec == FnInit /\ [][FnNext]_vars

TypeOK ==
  /\ nm.locked \in BOOLEAN
  /\ nm.nonce \in Int
  /\ \A h \in Handlers : Len(att[h].subs) <= 2

\* ------------------------------------------------------------------------
\* Properties
\* ------------------------------------------------------------------------
Subs(h) == att[h].subs
SubIdx(h) == DOMAIN att[h].subs
CeilingWei == parseUnitsGwei(cfg.maxPriorityFeeGwei)

\* C1: as long as no sync has raised the counter, the values returned by
\* next / getNonce are start, start+1, ..., in the order the calls acquired
\* the lock: the i-th value returned is start + i - 1, so none is returned
\* twice and none is skipped, and the counter stands right after the last one.
C1_ConsecutiveNonces ==
  (started = "running" /\ ~raised) =>
     /\ \A i \in DOMAIN allocs : allocs[i] = start + i - 1
     /\ nm.nonce = start + Len(allocs)

\* two handlers called next concurrently (one had to poll for the lock), both
\* calls have returned, and no sync has raised the counter
C1_Witness ==
  /\ ~raised
  /\ \E h, g \in Handlers :
       /\ h # g
       /\ Subs(h) # <<>> /\ Subs(g) # <<>>
       /\ Last(Subs(h)).hasNonce
       /\ Last(Subs(g)).hasNonce /\ Last(Subs(g)).waited

\* C2: every buildAndSendMint call that obtained a nonce has called release
\* exactly once when it returns or throws, and a handler whose attempt has
\* completed does not hold the lock.
C2_ReleaseExactlyOnce ==
  \A h \in Handlers :
    /\ \A i \in SubIdx(h) :
         (Subs(h)[i].hasNonce /\ Subs(h)[i].result # "running")
            => Subs(h)[i].releases = 1
    /\ (~att[h].active /\ Subs(h) # <<>>) => h \notin holders

\* C3: at most one handler is between a returned next / getNonce and its own
\* release.
C3_MutualExclusion == Cardinality(holders) <= 1

\* a caller that polled for the lock holds it now, while another call of
\* next is still polling
C3_Witness ==
  \E h, g \in Handlers :
    /\ holders = {h}
    /\ Last(Subs(h)).waited
    /\ pc[g] = "next"

\* C4: a handler suspended in the confirmation wait of its broadcast
\* transaction does not hold the nonce lock.
C4_NoLockDuringConfirmation ==
  \A h \in Handlers : pc[h] = "wait" => h \notin holders

\* C5: once the node has accepted the first submission of an attempt, the
\* attempt makes no second call of buildAndSendMint.
C5_NoRetryAfterAcceptedSend ==
  \A h \in Handlers :
    (Subs(h) # <<>> /\ Subs(h)[1].sent) => Len(Subs(h)) = 1

\* C6: an attempt calls buildAndSendMint at most twice; a second call is made
\* only after the first threw, and carries bumpPriority of the first fee; a
\* first call that ended in a broadcast failure always has its second call;
\* and once the second call has ended the attempt is over.
C6_RetryExactlyOnce ==
  \A h \in Handlers :
    /\ Len(Subs(h)) <= 2
    /\ Len(Subs(h)) = 2 =>
         /\ Subs(h)[1].result = "threw"
         /\ Subs(h)[2].fee = bumpPriority(Subs(h)[1].fee)
         /\ Subs(h)[2].result # "running" => ~att[h].active
    /\ (Subs(h) # <<>> /\ Subs(h)[1].cause = "send") => Len(Subs(h)) = 2

\* both broadcasts of one attempt were rejected by the node and the attempt
\* is over
C6_Witness ==
  \E h \in Handlers :
    /\ Len(Subs(h)) = 2
    /\ Subs(h)[1].cause = "send"
    /\ Subs(h)[2].cause = "send"
    /\ ~att[h].active

\* C7: every transaction the node accepted carries a priority fee of at most
\* the configured ceiling.
C7_FeeWithinCeiling ==
  \A h \in Handlers : \A i \in SubIdx(h) :
    Subs(h)[i].sent => Subs(h)[i].fee <= CeilingWei

\* C8: attemptMint / attemptMintWithBump never rejects.
C8_OrchestratorNeverRejects ==
  \A h \in Handlers : ~att[h].rejected

\* C9: the values returned by next / getNonce are strictly increasing in the
\* order of acquisition, whatever counts the chain reports to sync.
C9_StrictlyIncreasingNonces ==
  \A i, j \in DOMAIN allocs : i < j => allocs[i] < allocs[j]

\* a sync has raised the counter, and a retry after a failed submission has
\* been given its own nonce
C9_Witness ==
  /\ raised
  /\ \E h \in Handlers :
       /\ Len(Subs(h)) = 2
       /\ Subs(h)[2].hasNonce
       /\ Subs(h)[1].hasNonce

\* C10: with dry run enabled nothing is broadcast, no attempt makes a second
\* call of buildAndSendMint, and an attempt that got its fee and is over has
\* made one call, which allocated one nonce and released it.
C10_DryRunSingleAttempt ==
  cfg.dryRun =>
    \A h \in Handlers :
      /\ \A i \in SubIdx(h) : ~Subs(h)[i].sent
      /\ Len(Subs(h)) <= 1
      /\ (pc[h] = "done" /\ att[h].base > 0) =>
           /\ Len(Subs(h)) = 1
           /\ Subs(h)[1].hasNonce
           /\ Subs(h)[1].releases = 1
           /\ h \notin holders

Max(a, b) == IF a > b THEN a ELSE b
Min(a, b) == IF a < b THEN a ELSE b
Ended(h) == pc[h] \in {"done", "caught"}
InCriticalSection(h) ==
  pc[h] \in {"populateTransaction", "sendTransaction", "wait", "sync"}
Allocated == {allocs[i] : i \in DOMAIN allocs}

\* C11: in every run, dry run or not, NonceManager.init has completed before
\* the first allocation: once a value has been returned by next / getNonce the
\* counter was read from the chain at startup (it was >= 0 when the handlers
\* were registered), and no value returned is the uninitialised -1 or lies
\* below that startup count.
C11_InitBeforeAllocation ==
  allocs # <<>> =>
    /\ start >= 0
    /\ \A i \in DOMAIN allocs : allocs[i] # UninitNonce /\ allocs[i] >= start

\* C12: sync / syncIfBehind leaves the counter at the maximum of its value
\* and the chain's count: it never lowers it, and when the chain's count is
\* the larger one the next allocation returns exactly that count.
C12_SyncIsMax ==
  calc.op = "sync" =>
    /\ calc.after = Max(calc.local, calc.chainNonce)
    /\ calc.after >= calc.local
    /\ calc.chainNonce > calc.local => calc.returned = calc.chainNonce
    /\ calc.next = calc.returned + 1

C12_Witness ==
  /\ calc.op = "sync"
  /\ calc.chainNonce > calc.local
  /\ calc.local >= 0
  /\ calc.returned = calc.chainNonce

\* C13: a failure ends one attempt only: a handler never ends while
\* transactions of its event are still unfetched, so every other transaction
\* of the same block is still examined and, when it matches, attempted.
C13_FailureEndsOneAttemptOnly ==
  \A h \in Handlers : Ended(h) => todo[h] = 0

\* C14: no error raised while a pending or block event is handled escapes
\* the handler: the process keeps running with its subscriptions, and once a
\* handler has caught an error the next event of either kind can still be
\* delivered and handled.
C14_NoErrorEscapes ==
  /\ started # "crashed"
  /\ \A h \in Handlers : pc[h] # "uncaught"
  /\ \A h, g \in Handlers :
       (pc[h] = "caught" /\ pc[g] = "idle" /\ \A k \in 1..(g - 1) : pc[k] # "idle")
         => ENABLED PendingEvent(g) /\ ENABLED BlockEvent(g)

C14_Witness ==
  /\ pc[1] = "caught"
  /\ kind[1] = "block"
  /\ todo[1] > 0
  /\ pc[2] = "getFeeData"

\* C15: for every priority fee s the network supplies and ceiling c,
\* getPriorityFee returns min(s, c), which never exceeds c; it fails exactly
\* when the network supplies no priority fee.
C15_FeeIsMinOfSuggestedAndCeiling ==
  calc.op = "getPriorityFee" =>
    /\ calc.out.threw <=> ~calc.supplied
    /\ calc.supplied =>
         /\ calc.out.value = Min(calc.priority, CeilingWei)
         /\ calc.out.value <= CeilingWei

\* C16: for every previous fee f >= 0 and the configured bump factor, the
\* bumped fee is at least f.
C16_BumpNeverLowers ==
  calc.op = "bumpPriority" => calc.out >= calc.base

\* C17: when the fee estimate fails at the start of an attempt, the step in
\* which the attempt ends leaves the sequencer alone: counter and lock flag are
\* unchanged, no nonce is allocated, no lock is taken, and the attempt has made
\* no submission.
C17_FeeFailureLeavesSequencer ==
  [][\A h \in Handlers :
       (att'[h].rejected /\ ~att[h].rejected) =>
         /\ nm' = nm
         /\ allocs' = allocs
         /\ holders' = holders
         /\ att'[h].subs = <<>>]_vars

C17_Witness ==
  \E h, g \in Handlers :
    /\ att[h].rejected
    /\ pc[h] = "caught"
    /\ g \in holders
    /\ nm.locked

\* C18: as long as no fetched transaction was a call of the watched function
\* on the target (recipient equal to the target ignoring case, data opening
\* with the selector), no attempt has been started on either path, no nonce
\* has been allocated and nothing has been submitted.
C18_OnlyWatchedCallsStartAttempts ==
  ~observed =>
    /\ allocs = <<>>
    /\ \A h \in Handlers :
         /\ ~att[h].active
         /\ ~att[h].rejected
         /\ Subs(h) = <<>>
         /\ pc[h] \in {"idle", "getBlock", "getTransaction", "done", "caught"}

C18_Witness ==
  /\ ~observed
  /\ cfg.impl = "main"
  /\ cfg.mintSelector # <<>>
  /\ ~cfg.dryRun
  /\ \E h \in Handlers : kind[h] = "block" /\ pc[h] = "done" /\ todo[h] = 0
  /\ \E h \in Handlers : kind[h] = "pending" /\ pc[h] = "done"

\* C19 (as stated): on an account only this process uses, a broadcast
\* transaction's nonce is the chain's count: the pending transactions carry
\* the nonces that follow the mined ones without a gap.
C19_NoNonceGap ==
  \A n \in chain.pending : \A k \in chain.count..n : k \in chain.pending

\* C19 (amended): on an account only this process uses, every nonce between
\* the chain's count and the nonce of a pending transaction that is not itself
\* pending was allocated to a submission whose transaction the node never
\* accepted: gaps come from failed submissions only, never from the counter's
\* initialisation or its resynchronisation.
C19_GapsOnlyFromFailedSubmissions ==
  \A n \in chain.pending :
    /\ n >= chain.count
    /\ \A k \in chain.count..(n - 1) :
         k \in chain.pending \/ (k \in Allocated /\ k \notin chain.accepted)

C19_Witness ==
  \E n \in chain.pending :
    /\ n = chain.count + 1
    /\ chain.count \in Allocated
    /\ chain.count \notin chain.accepted

\* C20: no attempt waits forever in the polling loop of next / getNonce:
\* whenever a handler polls a taken lock, some handler is inside the locked
\* part of buildAndSendMint, from which the lock is released when its network
\* call returns or fails.
C20_NoAttemptWaitsForever ==
  \A h \in Handlers :
    (pc[h] = "next" /\ nm.locked) => \E g \in Handlers : InCriticalSection(g)

====
